---- MODULE Spec2Model ----
(***************************************************************************)
(* Model of sat_lab: the packed Literal encoding (literal.rs), the Clause  *)
(* built on it (clause.rs) and the Instance that holds an assignment and a *)
(* clause sequence, evaluates it, reads and writes DIMACS CNF text and     *)
(* generates random instances (instance.rs).                               *)
(*                                                                         *)
(* The specifications share the variables:                                 *)
(*   Spec        an Instance under assignment updates and queries          *)
(*   ClauseSpec  a Clause on its own: evaluation and negation              *)
(*   LitSpec     Literal::new and its accessors over a fixed-width integer *)
(*   FileSpec    Instance::to_file and Instance::from_file over file text  *)
(*   RandSpec    Instance::new_random, one step per loop iteration         *)
(*   RandLive    RandSpec with the fairness of the random source           *)
(***************************************************************************)
EXTENDS Integers, Sequences, FiniteSets, TLC

VARIABLES
    vars,            \* Instance.vars: the assignment, a sequence of BOOLEAN
    clauses,         \* Instance.clauses: a sequence of clauses (sequences of raw literals)
    out,             \* what the last call returned (or that it panicked)
    clause,          \* ClauseSpec: a Clause held on its own
    arg_index,       \* LitSpec: arguments of Literal::new
    arg_negated,
    lit,             \* LitSpec: the Literal that Literal::new built
    content,         \* FileSpec: text of the file, a sequence of characters
    loaded,          \* FileSpec: result of the last from_file
    pc,              \* position of the running constructor / program
    n, m, k,         \* RandSpec: arguments of new_random
    i,               \* RandSpec: loop counter of the inner for
    idx,             \* RandSpec: the index last drawn
    chosen_indices,  \* RandSpec: indices taken by the clause under construction
    var_indices,     \* RandSpec: var_indices[0..i)
    negates          \* RandSpec: negates[0..i)

allVars == <<vars, clauses, out, clause, arg_index, arg_negated, lit, content,
             loaded, pc, n, m, k, i, idx, chosen_indices, var_indices, negates>>
instVars == <<vars, clauses>>
litVars == <<arg_index, arg_negated, lit>>
fileVars == <<content, loaded>>
randVars == <<n, m, k, i, idx, chosen_indices, var_indices, negates>>

\* ---------------------------------------------------------------- bounds
\* Width in bits of isize/usize in the model (64 on the real target).
IntWidth == 5
\* Largest assignment length enumerated.
MaxVars == 2
\* Largest number of clauses of an enumerated Instance, and largest number
\* of literals in all its clauses together.
MaxClauses == 2
MaxTotalLits == 2
\* Largest length of a Clause enumerated on its own.
MaxLits == 2
\* Largest number of clause lines of an enumerated file text, and largest
\* number of tokens on all these lines together.
MaxFileLines == 2
MaxTotalTokens == 3
\* new_random: largest m * k enumerated.
MaxRandLits == 4

\* ------------------------------------------------------- integer helpers
RECURSIVE Pow2(_)
Pow2(e) == IF e = 0 THEN 1 ELSE 2 * Pow2(e - 1)

ISIZE_MAX == Pow2(IntWidth - 1) - 1
ISIZE_MIN == -Pow2(IntWidth - 1)
USIZE_MAX == Pow2(IntWidth) - 1

\* two's complement wrap of a mathematical integer into isize
WrapIsize(x) ==
    LET r == x % Pow2(IntWidth)
    IN  IF r > ISIZE_MAX THEN r - Pow2(IntWidth) ELSE r

\* `as usize` of an isize, and wrapping usize arithmetic
AsUsize(x) == x % Pow2(IntWidth)

\* isize::abs without overflow checks (abs(MIN) wraps to MIN)
IsizeAbs(x) == WrapIsize(IF x < 0 THEN -x ELSE x)

\* ---------------------------------------------------------------- Option
None == [some |-> FALSE, val |-> FALSE]
Some(b) == [some |-> TRUE, val |-> b]

\* BoolVec::get: None when the index is past the end (0-based index)
BoolVecGet(bv, ix) == IF ix < Len(bv) THEN Some(bv[ix + 1]) ELSE None

\* --------------------------------------------------------------- Literal
\* Literal::new without its assert
LiteralNewNoAssert(var_index, neg) ==
    LET v == var_index + 1
    IN  [panic |-> FALSE,
         overflow |-> v > ISIZE_MAX,
         lit |-> WrapIsize(IF neg THEN -WrapIsize(v) ELSE WrapIsize(v))]

\* Literal::new: the assert panics; otherwise index + 1 with its sign.
\* `overflow` records that index + 1 left the isize range.
LiteralNew(var_index, neg) ==
    IF ~(var_index < ISIZE_MAX)
    THEN [panic |-> TRUE, overflow |-> FALSE, lit |-> 0]
    ELSE LET v == var_index + 1
         IN  [panic |-> FALSE,
              overflow |-> v > ISIZE_MAX,
              lit |-> WrapIsize(IF neg THEN -WrapIsize(v) ELSE WrapIsize(v))]

from_cnf(cnf) == cnf

as_cnf(l) == l

\* |v| - 1 as usize; for v = 0 the subtraction wraps (or panics when the
\* build checks overflow): either way no assignment holds that index.
index(l) == (AsUsize(IsizeAbs(l)) - 1) % Pow2(IntWidth)

is_negated(l) == l < 0

\* a negated that keeps the sign
negatedIdentity(l) == from_cnf(l)

negated(l) == from_cnf(WrapIsize(-l))

negate(l) == WrapIsize(l * (-1))

\* try_eval_with that returns the bit and ignores the negation flag
try_eval_withNoXor(l, bv) ==
    LET g == BoolVecGet(bv, index(l))
    IN  IF g.some THEN Some(g.val) ELSE None

\* vars.get(index).map(|v| v ^ is_negated)
try_eval_with(l, bv) ==
    LET g == BoolVecGet(bv, index(l))
    IN  IF g.some THEN Some(g.val # is_negated(l)) ELSE None

\* eval_with unwraps: the result is a panic when try_eval_with is None
Panic == [panic |-> TRUE, val |-> FALSE]
Ret(v) == [panic |-> FALSE, val |-> v]

eval_with(l, bv) ==
    LET r == try_eval_with(l, bv)
    IN  IF r.some THEN Ret(r.val) ELSE Panic

\* ---------------------------------------------------------------- Clause
\* iter_eval consumed to the end (zip / collect): every literal evaluated
RECURSIVE iter_eval_from(_, _, _)
iter_eval_from(c, bv, j) ==
    IF j > Len(c) THEN Ret(<<>>)
    ELSE LET e == eval_with(c[j], bv)
         IN  IF e.panic THEN [panic |-> TRUE, val |-> <<>>]
             ELSE LET rest == iter_eval_from(c, bv, j + 1)
                  IN  IF rest.panic THEN rest
                      ELSE Ret(<<e.val>> \o rest.val)

iter_eval(c, bv) == iter_eval_from(c, bv, 1)

RECURSIVE iter_eval_negated_from(_, _, _)
iter_eval_negated_from(c, bv, j) ==
    IF j > Len(c) THEN Ret(<<>>)
    ELSE LET e == eval_with(negated(c[j]), bv)
         IN  IF e.panic THEN [panic |-> TRUE, val |-> <<>>]
             ELSE LET rest == iter_eval_negated_from(c, bv, j + 1)
                  IN  IF rest.panic THEN rest
                      ELSE Ret(<<e.val>> \o rest.val)

iter_eval_negated(c, bv) == iter_eval_negated_from(c, bv, 1)

\* test_sat: iter_eval(vars).any(|x| x); `any` pulls literals in order and
\* stops at the first true one, so later literals are never evaluated.
RECURSIVE any_from(_, _, _)
any_from(c, bv, j) ==
    IF j > Len(c) THEN Ret(FALSE)
    ELSE LET e == eval_with(c[j], bv)
         IN  IF e.panic THEN Panic
             ELSE IF e.val THEN Ret(TRUE)
             ELSE any_from(c, bv, j + 1)

\* a test_sat that evaluates every literal before deciding
test_satEager(c, bv) ==
    LET r == iter_eval(c, bv)
    IN  IF r.panic THEN Panic
        ELSE Ret(\E j \in 1..Len(r.val) : r.val[j])

test_sat(c, bv) == any_from(c, bv, 1)

\* -------------------------------------------------------------- Instance
\* count_sat: clauses.iter().filter(test_sat).count(); a panicking test_sat
\* aborts the whole count.
RECURSIVE count_sat_from(_, _, _)
count_sat_from(cs, bv, j) ==
    IF j > Len(cs) THEN [panic |-> FALSE, val |-> 0]
    ELSE LET t == test_sat(cs[j], bv)
         IN  IF t.panic THEN [panic |-> TRUE, val |-> 0]
             ELSE LET rest == count_sat_from(cs, bv, j + 1)
                  IN  IF rest.panic THEN rest
                      ELSE [panic |-> FALSE,
                            val |-> rest.val + (IF t.val THEN 1 ELSE 0)]

count_sat(cs, bv) == count_sat_from(cs, bv, 1)

is_sat(cs, bv) ==
    LET r == count_sat(cs, bv)
    IN  IF r.panic THEN Panic ELSE Ret(r.val = Len(cs))

\* ------------------------------------------------------ enumerated inputs
RECURSIVE SeqsUpTo(_, _)
SeqsUpTo(S, len) ==
    IF len = 0 THEN {<<>>}
    ELSE LET shorter == SeqsUpTo(S, len - 1)
         IN  shorter \cup {Append(s, x) : s \in {t \in shorter : Len(t) = len - 1}, x \in S}

BoolVecs(len) == [1..len -> BOOLEAN]

\* raw literal values over nv variables: every in-range literal and the two
\* literals of the first variable past the end of the assignment
LitValues(nv) == ((-(nv + 1))..(nv + 1)) \ {0}

RECURSIVE SumSeq(_)
SumSeq(s) == IF s = <<>> THEN 0 ELSE s[1] + SumSeq(Tail(s))

\* the ways to cut a sequence of `total` items into at most `parts` pieces
Cuts(total, parts) ==
    UNION {{lv \in [1..c -> 0..total] : SumSeq(lv) = total} : c \in 0..parts}

\* the pieces of `flat` with the lengths lv
RECURSIVE CutAt(_, _)
CutAt(flat, lv) ==
    IF lv = <<>> THEN <<>>
    ELSE <<SubSeq(flat, 1, lv[1])>> \o CutAt(SubSeq(flat, lv[1] + 1, Len(flat)), Tail(lv))

\* sequences of at most `parts` sequences over S with at most `total` items
SeqsOfSeqs(S, total, parts) ==
    UNION {{CutAt(flat, lv) : lv \in Cuts(Len(flat), parts)} : flat \in SeqsUpTo(S, total)}

ClauseSeqs(nv) == SeqsOfSeqs(LitValues(nv), MaxTotalLits, MaxClauses)

NoOut == [op |-> "none", panic |-> FALSE, val |-> 0]

\* values of the variables a specification does not use
IdleInst == vars = <<>> /\ clauses = <<>>
IdleClause == clause = <<>>
IdleLit == arg_index = 0 /\ arg_negated = FALSE /\ lit = 0
IdleFile == content = <<>> /\ loaded = NoOut
IdleRand ==
    /\ n = 0 /\ m = 0 /\ k = 0 /\ i = 0 /\ idx = 0
    /\ chosen_indices = <<>> /\ var_indices = <<>> /\ negates = <<>>

\* ============================================================ Spec
\* Instance::with_clauses(n, clauses): assignment of n false bits
with_clauses(nv, cs) == [vars |-> [j \in 1..nv |-> FALSE], clauses |-> cs]

Init ==
    /\ \E nv \in 0..MaxVars : \E cs \in ClauseSeqs(nv) :
          /\ vars = with_clauses(nv, cs).vars
          /\ clauses = with_clauses(nv, cs).clauses
    /\ out = NoOut
    /\ pc = "ready"
    /\ IdleClause /\ IdleLit /\ IdleFile /\ IdleRand

\* BoolVec::set(ix, b) on the public assignment; Err past the end
BoolVecSet(ix, b) ==
    /\ pc = "ready"
    /\ IF ix < Len(vars)
       THEN vars' = [vars EXCEPT ![ix + 1] = b]
       ELSE vars' = vars
    /\ out' = NoOut
    /\ UNCHANGED <<clauses, clause, litVars, fileVars, pc, randVars>>

\* BoolVec::negate(ix) flips one bit; Err past the end
BoolVecNegate(ix) ==
    /\ pc = "ready"
    /\ IF ix < Len(vars)
       THEN vars' = [vars EXCEPT ![ix + 1] = ~vars[ix + 1]]
       ELSE vars' = vars
    /\ out' = NoOut
    /\ UNCHANGED <<clauses, clause, litVars, fileVars, pc, randVars>>

\* sample_new_variables_with: fresh bits, same length
SampleNewVariables(bits) ==
    /\ pc = "ready"
    /\ vars' = bits
    /\ out' = NoOut
    /\ UNCHANGED <<clauses, clause, litVars, fileVars, pc, randVars>>

CountSat ==
    /\ pc = "ready"
    /\ LET r == count_sat(clauses, vars)
       IN  out' = [op |-> "count_sat", panic |-> r.panic, val |-> r.val]
    /\ UNCHANGED <<instVars, clause, litVars, fileVars, pc, randVars>>

IsSat ==
    /\ pc = "ready"
    /\ LET r == is_sat(clauses, vars)
       IN  out' = [op |-> "is_sat", panic |-> r.panic, val |-> r.val]
    /\ UNCHANGED <<instVars, clause, litVars, fileVars, pc, randVars>>

Next ==
    \/ \E ix \in 0..MaxVars, b \in BOOLEAN : BoolVecSet(ix, b)
    \/ \E ix \in 0..MaxVars : BoolVecNegate(ix)
    \/ \E bits \in BoolVecs(Len(vars)) : SampleNewVariables(bits)
    \/ CountSat
    \/ IsSat

Spec == Init /\ [][Next]_allVars

\* every literal of every clause indexes inside the assignment
InBounds(cs, bv) ==
    \A ci \in 1..Len(cs) : \A j \in 1..Len(cs[ci]) :
        cs[ci][j] # 0 /\ index(cs[ci][j]) < Len(bv)

\* a clause has a literal whose assignment bit, XOR its negation flag, is true
HasTrueLiteral(c, bv) ==
    \E j \in 1..Len(c) :
        LET v == IF c[j] < 0 THEN -c[j] ELSE c[j]
        IN  v >= 1 /\ v <= Len(bv) /\ (bv[v] # (c[j] < 0))

NumSatisfied(cs, bv) == Cardinality({ci \in 1..Len(cs) : HasTrueLiteral(cs[ci], bv)})

\* C1: with every literal in bounds, count_sat() returns the number of
\* clauses that have a true literal (so never an empty clause), and is_sat()
\* returns TRUE exactly when that number is the number of clauses (so
\* always for an Instance without clauses).
C1_CountSat ==
    InBounds(clauses, vars) =>
        /\ out.op = "count_sat" =>
              ~out.panic /\ out.val = NumSatisfied(clauses, vars)
        /\ out.op = "is_sat" =>
              ~out.panic /\ (out.val <=> (NumSatisfied(clauses, vars) = Len(clauses)))

\* a mixed instance was counted: an empty clause, a satisfied and an
\* unsatisfied one are all possible within the bounds
C1_Witness ==
    /\ InBounds(clauses, vars)
    /\ out.op = "count_sat"
    /\ Len(clauses) = 2
    /\ out.val = 1
    /\ \E j \in 1..Len(vars) : vars[j]

\* the literal indexes past the end of the assignment
OutOfRange(l, bv) == l = 0 \/ (IF l < 0 THEN -l ELSE l) > Len(bv)

\* the literal is in range and its bit XOR its sign is true
LitTrue(l, bv) ==
    LET v == IF l < 0 THEN -l ELSE l
    IN  v >= 1 /\ v <= Len(bv) /\ (bv[v] # (l < 0))

\* an out-of-range literal that no true literal precedes
ReachesOutOfRange(c, bv) ==
    \E j \in 1..Len(c) :
        /\ OutOfRange(c[j], bv)
        /\ \A h \in 1..(j - 1) : ~LitTrue(c[h], bv)

\* C6 as stated: any out-of-range literal, wherever it stands in its clause,
\* makes count_sat / is_sat (through test_sat) abort.
C6_AnyOutOfRangeAborts ==
    (/\ out.op \in {"count_sat", "is_sat"}
     /\ \E ci \in 1..Len(clauses) : \E j \in 1..Len(clauses[ci]) :
            OutOfRange(clauses[ci][j], vars))
        => out.panic

\* C6 amended: test_sat stops at the first true literal, so count_sat and
\* is_sat abort exactly when some clause has an out-of-range literal with no
\* true literal before it; an out-of-range literal standing after a true one
\* is skipped, and one that is reached always aborts (never counts as false).
C6_AbortsIffReached ==
    out.op \in {"count_sat", "is_sat"} =>
        (out.panic <=> \E ci \in 1..Len(clauses) : ReachesOutOfRange(clauses[ci], vars))

\* both cases happen: a skipped out-of-range literal, and a reached one
C6_Witness ==
    /\ out.op = "count_sat"
    /\ ~out.panic
    /\ out.val = 1
    /\ \E ci \in 1..Len(clauses) :
          /\ Len(clauses[ci]) = 2
          /\ LitTrue(clauses[ci][1], vars)
          /\ OutOfRange(clauses[ci][2], vars)

\* ====================================================== ClauseSpec
\* Clause::from_cnf(raws) with an arbitrary assignment next to it
ClauseInit ==
    /\ \E nv \in 0..MaxVars :
          /\ vars \in BoolVecs(nv)
          /\ clause \in SeqsUpTo((-(nv + 1))..(nv + 1), MaxLits)
    /\ clauses = <<>>
    /\ out = NoOut
    /\ pc = "ready"
    /\ IdleLit /\ IdleFile /\ IdleRand

ClauseTestSat ==
    /\ LET r == test_sat(clause, vars)
       IN  out' = [op |-> "test_sat", panic |-> r.panic, val |-> r.val]
    /\ UNCHANGED <<instVars, clause, litVars, fileVars, pc, randVars>>

ClauseIterEval ==
    /\ LET r == iter_eval(clause, vars)
       IN  out' = [op |-> "iter_eval", panic |-> r.panic, val |-> r.val]
    /\ UNCHANGED <<instVars, clause, litVars, fileVars, pc, randVars>>

ClauseIterEvalNegated ==
    /\ LET r == iter_eval_negated(clause, vars)
       IN  out' = [op |-> "iter_eval_negated", panic |-> r.panic, val |-> r.val]
    /\ UNCHANGED <<instVars, clause, litVars, fileVars, pc, randVars>>

\* Clause::negated: a new clause, the receiver untouched
ClauseNegated ==
    /\ out' = [op |-> "negated", panic |-> FALSE,
               val |-> [j \in 1..Len(clause) |-> negated(clause[j])]]
    /\ UNCHANGED <<instVars, clause, litVars, fileVars, pc, randVars>>

\* Clause::negate: every literal negated in place
ClauseNegate ==
    /\ clause' = [j \in 1..Len(clause) |-> negate(clause[j])]
    /\ out' = [op |-> "negate", panic |-> FALSE, val |-> 0]
    /\ UNCHANGED <<instVars, litVars, fileVars, pc, randVars>>

ClauseNext ==
    \/ ClauseTestSat
    \/ ClauseIterEval
    \/ ClauseIterEvalNegated
    \/ ClauseNegated
    \/ ClauseNegate

ClauseSpec == ClauseInit /\ [][ClauseNext]_allVars

ClauseInRange(c, bv) == \A j \in 1..Len(c) : ~OutOfRange(c[j], bv)

C10_State ==
    ClauseInRange(clause, vars) =>
        /\ \A j \in 1..Len(clause) :
              /\ ~eval_with(clause[j], vars).panic
              /\ ~eval_with(negated(clause[j]), vars).panic
              /\ eval_with(clause[j], vars).val # eval_with(negated(clause[j]), vars).val
        /\ out.op = "iter_eval_negated" =>
              /\ ~out.panic
              /\ Len(out.val) = Len(iter_eval(clause, vars).val)
              /\ Len(out.val) = Len(clause)
              /\ \A j \in 1..Len(out.val) :
                    out.val[j] = ~iter_eval(clause, vars).val[j]
        /\ out.op = "iter_eval" =>
              /\ ~out.panic
              /\ Len(out.val) = Len(clause)
              /\ \A j \in 1..Len(out.val) : out.val[j] = LitTrue(clause[j], vars)

\* C10: for in-range literals eval_with of a literal and of its negation
\* differ; iter_eval_negated yields as many values as iter_eval, each the
\* complement of the corresponding one, and does not change the clause.
C10_NegationFlips ==
    /\ []C10_State
    /\ [][out'.op = "iter_eval_negated" => clause' = clause]_allVars

C10_Witness ==
    /\ ClauseInRange(clause, vars)
    /\ Len(clause) = 2
    /\ out.op = "iter_eval_negated"
    /\ out.val = <<TRUE, FALSE>>

\* ========================================================= LitSpec
LitInit ==
    /\ arg_index \in 0..USIZE_MAX
    /\ arg_negated \in BOOLEAN
    /\ lit = 0
    /\ out = NoOut
    /\ pc = "args"
    /\ IdleInst /\ IdleClause /\ IdleFile /\ IdleRand

\* Literal::new(arg_index, arg_negated)
LitNew ==
    /\ pc = "args"
    /\ LET r == LiteralNew(arg_index, arg_negated)
       IN  /\ pc' = IF r.panic THEN "panicked" ELSE "built"
           /\ lit' = r.lit
           /\ out' = [op |-> "new", panic |-> r.panic, val |-> r.overflow]
    /\ UNCHANGED <<instVars, clause, arg_index, arg_negated, fileVars, randVars>>

LitIndex ==
    /\ pc = "built"
    /\ out' = [op |-> "index", panic |-> FALSE, val |-> index(lit)]
    /\ UNCHANGED <<instVars, clause, litVars, fileVars, pc, randVars>>

LitIsNegated ==
    /\ pc = "built"
    /\ out' = [op |-> "is_negated", panic |-> FALSE, val |-> is_negated(lit)]
    /\ UNCHANGED <<instVars, clause, litVars, fileVars, pc, randVars>>

LitAsCnf ==
    /\ pc = "built"
    /\ out' = [op |-> "as_cnf", panic |-> FALSE, val |-> as_cnf(lit)]
    /\ UNCHANGED <<instVars, clause, litVars, fileVars, pc, randVars>>

LitNext ==
    \/ LitNew
    \/ LitIndex
    \/ LitIsNegated
    \/ LitAsCnf

LitSpec == LitInit /\ [][LitNext]_allVars

\* C9: Literal::new succeeds without overflow for every index < MAX and the
\* literal reports that index, that negation flag and the signed value
\* +-(index + 1); for every index >= MAX it panics instead of wrapping.
C9_LiteralNew ==
    /\ pc = "built" =>
          /\ arg_index < ISIZE_MAX
          /\ lit = (IF arg_negated THEN -(arg_index + 1) ELSE arg_index + 1)
          /\ out.op = "new" => ~out.val
          /\ out.op = "index" => out.val = arg_index
          /\ out.op = "is_negated" => out.val = arg_negated
          /\ out.op = "as_cnf" =>
                out.val = (IF arg_negated THEN -(arg_index + 1) ELSE arg_index + 1)
    /\ pc = "panicked" => arg_index >= ISIZE_MAX
    /\ (pc # "args" /\ arg_index >= ISIZE_MAX) => pc = "panicked"
    /\ (pc # "args" /\ arg_index < ISIZE_MAX) => pc = "built"

\* the largest legal index was built and read back
C9_Witness ==
    /\ pc = "built"
    /\ arg_index = ISIZE_MAX - 1
    /\ arg_negated
    /\ out.op = "index"
    /\ out.val = ISIZE_MAX - 1

\* ======================================================== RandSpec
\* new_random(n, m, k), one step per evaluation of a loop head or body.
\* The random source is a free choice of every value it can return.
RandInit ==
    /\ n \in 0..MaxVars
    /\ m \in 0..MaxRandLits
    /\ k \in 0..MaxRandLits
    /\ m * k <= MaxRandLits
    /\ pc = "call"
    /\ i = 0 /\ idx = 0
    /\ chosen_indices = <<>> /\ var_indices = <<>> /\ negates = <<>>
    /\ out = NoOut
    /\ IdleInst /\ IdleClause /\ IdleLit /\ IdleFile

\* lines 87-91: chosen_indices = vec![], vars = n sampled bits
RandStart ==
    /\ pc = "call"
    /\ chosen_indices' = <<>>
    /\ vars' \in BoolVecs(n)
    /\ pc' = "map"
    /\ UNCHANGED <<clauses, out, clause, litVars, fileVars, n, m, k, i, idx,
                   var_indices, negates>>

\* lines 92-96: next item of (0..m): fresh var_indices and negates
RandClauseBegin ==
    /\ pc = "map"
    /\ Len(clauses) < m
    /\ var_indices' = [j \in 1..k |-> 0]
    /\ negates' = [j \in 1..k |-> FALSE]
    /\ i' = 0
    /\ pc' = "for"
    /\ UNCHANGED <<instVars, out, clause, litVars, fileVars, n, m, k, idx,
                   chosen_indices>>

\* line 98: gen_range(0..n), which panics on the empty range
RandDraw ==
    /\ pc = "for"
    /\ i < k
    /\ IF n = 0
       THEN pc' = "panicked" /\ idx' = idx
       ELSE pc' = "while" /\ idx' \in 0..(n - 1)
    /\ UNCHANGED <<instVars, out, clause, litVars, fileVars, n, m, k, i,
                   chosen_indices, var_indices, negates>>

Contains(s, x) == \E j \in 1..Len(s) : s[j] = x

\* lines 99-101: the index is taken, draw again
RandRedraw ==
    /\ pc = "while"
    /\ Contains(chosen_indices, idx)
    /\ idx' \in 0..(n - 1)
    /\ UNCHANGED <<instVars, out, clause, litVars, fileVars, pc, n, m, k, i,
                   chosen_indices, var_indices, negates>>

\* the redraw that returns an index not yet taken
RandRedrawFresh ==
    /\ RandRedraw
    /\ ~Contains(chosen_indices, idx')

\* lines 102-105 without the push onto chosen_indices
RandPushNoRecord ==
    /\ pc = "while"
    /\ ~Contains(chosen_indices, idx)
    /\ var_indices' = [var_indices EXCEPT ![i + 1] = idx]
    /\ \E b \in BOOLEAN : negates' = [negates EXCEPT ![i + 1] = b]
    /\ i' = i + 1
    /\ pc' = "for"
    /\ UNCHANGED <<instVars, out, clause, litVars, fileVars, n, m, k, idx,
                   chosen_indices>>

\* lines 102-105: keep the index, draw the negation flag
RandPush ==
    /\ pc = "while"
    /\ ~Contains(chosen_indices, idx)
    /\ chosen_indices' = Append(chosen_indices, idx)
    /\ var_indices' = [var_indices EXCEPT ![i + 1] = idx]
    /\ \E b \in BOOLEAN : negates' = [negates EXCEPT ![i + 1] = b]
    /\ i' = i + 1
    /\ pc' = "for"
    /\ UNCHANGED <<instVars, out, clause, litVars, fileVars, n, m, k, idx>>

\* Clause::from_indices: zip, Literal::new on every pair
from_indices(ixs, negs) ==
    LET len == IF Len(ixs) < Len(negs) THEN Len(ixs) ELSE Len(negs)
    IN  [panic |-> \E j \in 1..len : LiteralNew(ixs[j], negs[j]).panic,
         val |-> [j \in 1..len |-> LiteralNew(ixs[j], negs[j]).lit]]

\* lines 107-109 without the clear
RandClauseEndNoClear ==
    /\ pc = "for"
    /\ i = k
    /\ LET c == from_indices(var_indices, negates)
       IN  IF c.panic
           THEN pc' = "panicked" /\ clauses' = clauses
           ELSE pc' = "map" /\ clauses' = Append(clauses, c.val)
    /\ UNCHANGED <<vars, out, clause, litVars, fileVars, n, m, k, i, idx,
                   chosen_indices, var_indices, negates>>

\* lines 107-109: chosen_indices.clear(), the clause joins the collection
RandClauseEnd ==
    /\ pc = "for"
    /\ i = k
    /\ chosen_indices' = <<>>
    /\ LET c == from_indices(var_indices, negates)
       IN  IF c.panic
           THEN pc' = "panicked" /\ clauses' = clauses
           ELSE pc' = "map" /\ clauses' = Append(clauses, c.val)
    /\ UNCHANGED <<vars, out, clause, litVars, fileVars, n, m, k, i, idx,
                   var_indices, negates>>

\* lines 111-113: (0..m) is exhausted, Self { vars, clauses } is returned
RandReturn ==
    /\ pc = "map"
    /\ Len(clauses) = m
    /\ pc' = "done"
    /\ UNCHANGED <<instVars, out, clause, litVars, fileVars, randVars>>

RandNext ==
    \/ RandStart
    \/ RandClauseBegin
    \/ RandDraw
    \/ RandRedraw
    \/ RandPush
    \/ RandClauseEnd
    \/ RandReturn

RandSpec == RandInit /\ [][RandNext]_allVars

\* The random source is uniform: a draw that can return a free index does
\* so eventually; every other step is ordinary sequential progress.
RandLive ==
    /\ RandInit
    /\ [][RandNext]_allVars
    /\ WF_allVars(RandNext)
    /\ WF_allVars(RandRedrawFresh)

Abs(x) == IF x < 0 THEN -x ELSE x

\* C7: with k <= n a returned Instance has n variables and m clauses of
\* exactly k literals each, over pairwise distinct variables below n; and
\* every clause starts with no index taken.
C7_RandomShape ==
    /\ (pc = "done" /\ k <= n) =>
          /\ Len(vars) = n
          /\ Len(clauses) = m
          /\ \A ci \in 1..Len(clauses) :
                /\ Len(clauses[ci]) = k
                /\ \A j \in 1..k : Abs(clauses[ci][j]) - 1 \in 0..(n - 1)
                /\ \A j, h \in 1..k :
                      j # h => Abs(clauses[ci][j]) # Abs(clauses[ci][h])
    /\ (pc = "map" \/ (pc = "for" /\ i = 0)) => chosen_indices = <<>>

\* two clauses of one returned Instance use the same variable
C7_Witness ==
    /\ pc = "done"
    /\ k <= n
    /\ k = 2
    /\ Len(clauses) = 2
    /\ Abs(clauses[1][1]) = Abs(clauses[2][2])
    /\ \E j \in 1..Len(vars) : vars[j]

\* C8 as stated, its first half: a call with k > n never returns.
C8_NeverReturnsWhenKExceedsN == k > n => pc # "done"

\* C8 amended: a call with k > n that asks for at least one clause never
\* returns (it panics when n = 0 and loops in the while otherwise); with
\* m = 0 no clause is generated and the call returns whatever k is; and a
\* call with k <= n returns eventually when the random source is fair.
C8_Termination ==
    /\ []((k > n /\ m >= 1) => pc # "done")
    /\ (m = 0 \/ k <= n) ~> (pc = "done")

C8_Witness ==
    /\ pc = "done"
    /\ k = n
    /\ n = MaxVars
    /\ Len(clauses) = 2

\* ======================================================== FileSpec
\* File text is a sequence of characters, each a one-character string.
Digits == <<"0", "1", "2", "3", "4", "5", "6", "7", "8", "9">>

IsDigit(ch) == \E d \in 1..10 : Digits[d] = ch

DigitVal(ch) == (CHOOSE d \in 1..10 : Digits[d] = ch) - 1

IsWhitespace(ch) == ch \in {" ", "\n", "\t", "\r"}

\* Display of an unsigned and of a signed integer: decimal, `-` when negative
RECURSIVE FmtUsize(_)
FmtUsize(x) ==
    IF x < 10 THEN <<Digits[x + 1]>>
    ELSE FmtUsize(x \div 10) \o <<Digits[(x % 10) + 1]>>

FmtIsize(x) == IF x < 0 THEN <<"-">> \o FmtUsize(-x) ELSE FmtUsize(x)

\* value of a string of decimal digits
RECURSIVE DigitsVal(_)
DigitsVal(t) ==
    IF t = <<>> THEN 0
    ELSE 10 * DigitsVal(SubSeq(t, 1, Len(t) - 1)) + DigitVal(t[Len(t)])

ParseErr == [ok |-> FALSE, val |-> 0]

AllDigits(t) == t # <<>> /\ \A j \in 1..Len(t) : IsDigit(t[j])

\* str::parse::<usize>: optional `+`, then digits only, no overflow
ParseUsize(t) ==
    LET d == IF t # <<>> /\ t[1] = "+" THEN Tail(t) ELSE t
    IN  IF ~AllDigits(d) THEN ParseErr
        ELSE IF DigitsVal(d) > USIZE_MAX THEN ParseErr
        ELSE [ok |-> TRUE, val |-> DigitsVal(d)]

\* str::parse::<isize>: optional `+` or `-`, then digits only, no overflow
ParseIsize(t) ==
    LET signed == t # <<>> /\ t[1] \in {"+", "-"}
        d == IF signed THEN Tail(t) ELSE t
    IN  IF ~AllDigits(d) THEN ParseErr
        ELSE LET v == IF signed /\ t[1] = "-" THEN -DigitsVal(d) ELSE DigitsVal(d)
             IN  IF v > ISIZE_MAX \/ v < ISIZE_MIN THEN ParseErr
                 ELSE [ok |-> TRUE, val |-> v]

\* str::trim: whitespace removed at both ends
RECURSIVE TrimStart(_)
TrimStart(t) ==
    IF t # <<>> /\ IsWhitespace(t[1]) THEN TrimStart(Tail(t)) ELSE t

RECURSIVE TrimEnd(_)
TrimEnd(t) ==
    IF t # <<>> /\ IsWhitespace(t[Len(t)])
    THEN TrimEnd(SubSeq(t, 1, Len(t) - 1)) ELSE t

Trim(t) == TrimEnd(TrimStart(t))

\* pieces of t between the characters that satisfy the separator test
RECURSIVE SplitAt(_, _, _, _)
SplitAt(t, j, cur, nl) ==
    IF j > Len(t) THEN <<cur>>
    ELSE IF (IF nl THEN t[j] = "\n" ELSE IsWhitespace(t[j]))
         THEN <<cur>> \o SplitAt(t, j + 1, <<>>, nl)
         ELSE SplitAt(t, j + 1, Append(cur, t[j]), nl)

StripCr(l) == IF l # <<>> /\ l[Len(l)] = "\r" THEN SubSeq(l, 1, Len(l) - 1) ELSE l

\* str::lines: split at \n, a final empty piece is not a line
Lines(t) ==
    LET pieces == SplitAt(t, 1, <<>>, TRUE)
        kept == IF pieces[Len(pieces)] = <<>>
                THEN SubSeq(pieces, 1, Len(pieces) - 1) ELSE pieces
    IN  [j \in 1..Len(kept) |-> StripCr(kept[j])]

\* str::split_whitespace: the non-empty pieces between whitespace
split_whitespace(l) == SelectSeq(SplitAt(l, 1, <<>>, FALSE), LAMBDA w : w # <<>>)

\* Iterator::skip_while(|x| x.starts_with('c'))
RECURSIVE SkipComments(_)
SkipComments(ls) ==
    IF ls # <<>> /\ ls[1] # <<>> /\ ls[1][1] = "c"
    THEN SkipComments(Tail(ls)) ELSE ls

Skip1(s) == IF s = <<>> THEN <<>> ELSE Tail(s)

Take(s, cnt) == SubSeq(s, 1, IF cnt < Len(s) THEN cnt ELSE Len(s))

\* length of the longest prefix of parse results that are Ok and not 0
RECURSIVE TakeWhileLen(_, _)
TakeWhileLen(rs, j) ==
    IF j > Len(rs) THEN Len(rs)
    ELSE IF rs[j].ok /\ rs[j].val # 0 THEN TakeWhileLen(rs, j + 1)
    ELSE j - 1

\* lines 68-74: one clause line; parse every token, take_while keeps the
\* results up to the first one that is an Err or a 0, the kept results are
\* collected into a Result<Clause, _>
ParseClauseLine(l) ==
    LET toks == split_whitespace(l)
        rs == [j \in 1..Len(toks) |-> ParseIsize(toks[j])]
        kept == SubSeq(rs, 1, TakeWhileLen(rs, 1))
    IN  [ok |-> \A j \in 1..Len(kept) : kept[j].ok,
         val |-> [j \in 1..Len(kept) |-> from_cnf(kept[j].val)]]

LoadErr == [op |-> "from_file", ok |-> FALSE, vars |-> <<>>, clauses |-> <<>>]

CNF == <<"c", "n", "f">>

\* Instance::from_file on the text of the file
from_file(text) ==
    LET lines == SkipComments(Lines(Trim(text)))
    IN  IF lines = <<>> THEN LoadErr
        ELSE
        LET param_line == Skip1(split_whitespace(lines[1]))
        IN  IF Len(param_line) < 1 THEN LoadErr
            ELSE IF param_line[1] # CNF THEN LoadErr
            ELSE IF Len(param_line) < 2 THEN LoadErr
            ELSE IF ~ParseUsize(param_line[2]).ok THEN LoadErr
            ELSE IF Len(param_line) < 3 THEN LoadErr
            ELSE IF ~ParseUsize(param_line[3]).ok THEN LoadErr
            ELSE
            LET nn == ParseUsize(param_line[2]).val
                mm == ParseUsize(param_line[3]).val
                body == Take(Tail(lines), mm)
                cls == [j \in 1..Len(body) |-> ParseClauseLine(body[j])]
            IN  IF \E j \in 1..Len(cls) : ~cls[j].ok THEN LoadErr
                ELSE [op |-> "from_file", ok |-> TRUE,
                      vars |-> [j \in 1..nn |-> FALSE],
                      clauses |-> [j \in 1..Len(cls) |-> cls[j].val]]

RECURSIVE Concat(_)
Concat(ss) == IF ss = <<>> THEN <<>> ELSE ss[1] \o Concat(Tail(ss))

\* lines 124-129 with the sign of every literal dropped
ClauseTextUnsigned(c) ==
    Concat([j \in 1..Len(c) |-> FmtUsize(Abs(as_cnf(c[j]))) \o <<" ">>]) \o <<"0", "\n">>

\* lines 124-129: every literal and a space, then 0 and a newline
ClauseText(c) ==
    Concat([j \in 1..Len(c) |-> FmtIsize(as_cnf(c[j])) \o <<" ">>]) \o <<"0", "\n">>

\* Instance::to_file: the text written
to_file(bv, cs) ==
    <<"p", " ", "c", "n", "f", " ">> \o FmtUsize(Len(bv)) \o <<" ">>
        \o FmtUsize(Len(cs)) \o <<"\n">>
        \o Concat([j \in 1..Len(cs) |-> ClauseText(cs[j])])

\* ---- enumerated file texts
JoinTokens(toks) ==
    IF toks = <<>> THEN <<>>
    ELSE toks[1] \o Concat([j \in 1..(Len(toks) - 1) |-> <<" ">> \o toks[j + 1]])

\* every line followed by a newline
TextOf(ls) == Concat([j \in 1..Len(ls) |-> ls[j] \o <<"\n">>])

TokP == <<"p">>
TokQ == <<"q">>
TokWff == <<"w", "f", "f">>
TokX == <<"x">>

\* header lines: well formed, with a wrong first token, a wrong problem
\* type, counts that are not numbers, too few or too many tokens
FullHeaders ==
    {<<f, t, a, b>> : f \in {TokP, TokQ}, t \in {CNF, TokWff},
                      a \in {<<"2">>, TokX, <<"-", "1">>}, b \in {<<"1">>, TokX}}

HeaderLines ==
    {JoinTokens(SubSeq(h, 1, len)) : h \in FullHeaders, len \in 0..4}
        \cup {JoinTokens(Append(h, TokX)) : h \in FullHeaders}

CommentLine == <<"c", " ", "x">>

SmallBodies ==
    { <<>>,
      << <<"1", " ", "0">> >>,
      << <<"1", " ", "-", "2", " ", "0">>, <<"2", " ", "0">> >> }

HeaderTexts ==
    {TextOf(cm \o <<h>> \o b) :
        cm \in {<<>>, <<CommentLine>>}, h \in HeaderLines, b \in SmallBodies}
        \cup {<<>>, TextOf(<<CommentLine>>)}

\* clause lines: each token a literal, a 0 or not a number
BodyTokens == {<<"1">>, <<"0">>, TokX}

Bodies ==
    {[j \in 1..Len(b) |-> JoinTokens(b[j])] :
        b \in SeqsOfSeqs(BodyTokens, MaxTotalTokens, MaxFileLines)}

BodyTexts ==
    {TextOf(<<JoinTokens(<<TokP, CNF, <<"2">>, FmtUsize(mm)>>)>> \o b) :
        mm \in 0..(MaxFileLines + 1), b \in Bodies}

Texts == HeaderTexts \cup BodyTexts

\* Instance::new(vars, clauses)
InstanceNew(bv, cs) == [vars |-> bv, clauses |-> cs]

\* literals written by hand into a clause: in range, or the raw value 0
FileLitValues(nv) == (-nv)..nv

\* Either a file is found on disk and no clause is in memory yet, or an
\* Instance was built in memory and the file is still empty.
FileInit ==
    /\ \/ /\ content \in Texts
          /\ vars = InstanceNew(<<>>, <<>>).vars
          /\ clauses = InstanceNew(<<>>, <<>>).clauses
       \/ /\ content = <<>>
          /\ \E nv \in 0..MaxVars :
               \E bv \in BoolVecs(nv) :
                 \E cs \in SeqsOfSeqs(FileLitValues(nv), MaxTotalLits, MaxClauses) :
                   /\ vars = InstanceNew(bv, cs).vars
                   /\ clauses = InstanceNew(bv, cs).clauses
    /\ loaded = NoOut
    /\ out = NoOut
    /\ pc = "found"
    /\ IdleClause /\ IdleLit /\ IdleRand

\* self.to_file(path): the file now holds the text of the Instance
ToFile ==
    /\ content' = to_file(vars, clauses)
    /\ loaded' = NoOut
    /\ pc' = "saved"
    /\ UNCHANGED <<instVars, out, clause, litVars, randVars>>

\* Instance::from_file(path): Err, or a new Instance
FromFile ==
    /\ loaded' = from_file(content)
    /\ UNCHANGED <<instVars, out, clause, litVars, content, pc, randVars>>

FileNext ==
    \/ ToFile
    \/ FromFile

FileSpec == FileInit /\ [][FileNext]_allVars

\* C2: when no literal is 0 and every literal is in range, the text that
\* to_file wrote loads, and the loaded Instance has the same clauses in
\* the same order, as many variables, and an assignment that is all false.
C2_RoundTrip ==
    (/\ pc = "saved"
     /\ loaded.op = "from_file"
     /\ InBounds(clauses, vars))
        => /\ loaded.ok
           /\ loaded.clauses = clauses
           /\ Len(loaded.vars) = Len(vars)
           /\ \A j \in 1..Len(loaded.vars) : ~loaded.vars[j]

\* an Instance with a true bit, an empty clause and a negated literal came back
C2_Witness ==
    /\ pc = "saved"
    /\ loaded.op = "from_file"
    /\ loaded.ok
    /\ InBounds(clauses, vars)
    /\ Len(clauses) = 2
    /\ clauses[1] = <<>>
    /\ Len(clauses[2]) = 2
    /\ \E j \in 1..Len(clauses[2]) : clauses[2][j] < 0
    /\ \E j \in 1..Len(vars) : vars[j]

\* ---- what the text of the file says, read without from_file
HeaderLine(text) ==
    LET ls == SkipComments(Lines(Trim(text)))
    IN  IF ls = <<>> THEN <<>> ELSE split_whitespace(ls[1])

HasHeaderLine(text) == SkipComments(Lines(Trim(text))) # <<>>

\* the lines after the header line
AfterHeader(text) == Skip1(SkipComments(Lines(Trim(text))))

\* `p cnf <n> <m>` with n and m non-negative integers
WellFormedHeader(text) ==
    LET h == HeaderLine(text)
    IN  /\ HasHeaderLine(text)
        /\ Len(h) >= 4
        /\ h[1] = TokP
        /\ h[2] = CNF
        /\ ParseUsize(h[3]).ok
        /\ ParseUsize(h[4]).ok

\* counts declared by a header whose third and fourth tokens are numbers
CountsDeclared(text) ==
    LET h == HeaderLine(text)
    IN  Len(h) >= 4 /\ ParseUsize(h[3]).ok /\ ParseUsize(h[4]).ok

DeclaredN(text) == ParseUsize(HeaderLine(text)[3]).val
DeclaredM(text) == ParseUsize(HeaderLine(text)[4]).val

IsZeroToken(t) == ParseIsize(t).ok /\ ParseIsize(t).val = 0

\* a token that is not a signed integer stands before the first 0 token
BadTokenBeforeZero(l) ==
    LET toks == split_whitespace(l)
    IN  \E j \in 1..Len(toks) :
            /\ ~ParseIsize(toks[j]).ok
            /\ \A h \in 1..(j - 1) : ~IsZeroToken(toks[h])

\* C3: a token before the first 0 of one of the m clause lines that is not
\* a signed integer makes the load fail.
C3_BadTokenFails ==
    (/\ loaded.op = "from_file"
     /\ CountsDeclared(content)
     /\ \E j \in 1..Len(AfterHeader(content)) :
            j <= DeclaredM(content) /\ BadTokenBeforeZero(AfterHeader(content)[j]))
        => ~loaded.ok

\* C4: fewer than m lines after the header make the load fail; a load that
\* succeeds has exactly m clauses and an assignment of n false bits.
C4_ClauseCount ==
    (loaded.op = "from_file" /\ CountsDeclared(content)) =>
        /\ Len(AfterHeader(content)) < DeclaredM(content) => ~loaded.ok
        /\ loaded.ok =>
              /\ Len(loaded.clauses) = DeclaredM(content)
              /\ Len(loaded.vars) = DeclaredN(content)
              /\ \A j \in 1..Len(loaded.vars) : ~loaded.vars[j]

\* C5: the load succeeds only if the first line after the leading comment
\* lines is a header `p cnf <n> <m>`.
C5_HeaderRequired ==
    (loaded.op = "from_file" /\ loaded.ok) => WellFormedHeader(content)

====
